---- MODULE Spec2Model ----
(***************************************************************************)
(* A model of fuel_logger_app.py: the receipt parser (ReceiptParser), its  *)
(* regular-expression rule table, the type conversions applied to the      *)
(* captured substrings, the price-per-gallon derivation, and the upload    *)
(* route (index) that feeds the selected OCR processor's output to the     *)
(* parser.                                                                  *)
(*                                                                         *)
(* A text is a sequence of characters, each a one-character string.  The   *)
(* regular expressions are modelled by a backtracking matcher that yields  *)
(* the end positions of a sub-pattern in the priority order of Python's    *)
(* re module (greedy quantifiers try the longest repetition first, an      *)
(* alternation tries its branches left to right).                          *)
(***************************************************************************)
EXTENDS Integers, Sequences, FiniteSets, TLC

(***************************************************************************)
(* Characters                                                              *)
(***************************************************************************)
UpperCase ==
    <<"A","B","C","D","E","F","G","H","I","J","K","L","M","N","O","P","Q","R","S","T","U","V",
      "W","X","Y","Z">>

LowerCase ==
    <<"a","b","c","d","e","f","g","h","i","j","k","l","m","n","o","p","q","r","s","t","u","v",
      "w","x","y","z">>

DigitChars ==
    <<"0","1","2","3","4","5","6","7","8","9">>

\* One text element that stands for a run of 4301 consecutive digits 9: one
\* digit more than CPython's int() accepts in a string (4300).  The texts of
\* this model only place it right after a label and its separator, where the
\* rules consume a digit run as a whole.
DigitRun == "9{4301}"

Range(s) == {s[i] : i \in 1..Len(s)}

Uppers == Range(UpperCase)

Lowers == Range(LowerCase)

DigitSet == Range(DigitChars) \cup {DigitRun}

\* re.IGNORECASE: characters are compared after case folding.
Fold(c) ==
    IF c \in Uppers
    THEN LowerCase[CHOOSE i \in 1..Len(UpperCase) : UpperCase[i] = c]
    ELSE c

\* \d
IsDigit(c) == c \in DigitSet

\* \s
IsSpace(c) == c \in {" ", "\n", "\t", "\r"}

\* \w
IsWord(c) == IsDigit(c) \/ c \in Uppers \/ c \in Lowers \/ c = "_"

(***************************************************************************)
(* Regular expressions.  A node is a literal string, a character class (a  *)
(* set of characters, of the class escapes \d, \s, \w and of the ranges    *)
(* A-Z, a-z, 0-9), a concatenation, an alternation or a greedy repetition. *)
(***************************************************************************)
Lit(s) == [op |-> "lit", s |-> s]

Cls(items) == [op |-> "cls", items |-> items]

Cat(ns) == [op |-> "cat", ns |-> ns]

Alt(ns) == [op |-> "alt", ns |-> ns]

\* n{lo,hi}
Rep(n, lo, hi) == [op |-> "rep", n |-> n, lo |-> lo, hi |-> hi, unbounded |-> FALSE]

\* n*
Star(n) == [op |-> "rep", n |-> n, lo |-> 0, hi |-> 0, unbounded |-> TRUE]

\* n+
Plus(n) == [op |-> "rep", n |-> n, lo |-> 1, hi |-> 0, unbounded |-> TRUE]

\* n?
Opt(n) == Rep(n, 0, 1)

InClass(c, items) ==
    \/ c \in items
    \/ Fold(c) \in {Fold(x) : x \in items}
    \/ ("\\d" \in items /\ IsDigit(c))
    \/ ("\\s" \in items /\ IsSpace(c))
    \/ ("\\w" \in items /\ IsWord(c))
    \/ (("A-Z" \in items \/ "a-z" \in items) /\ (c \in Uppers \/ c \in Lowers))
    \/ ("0-9" \in items /\ IsDigit(c))

LitAt(s, t, i) ==
    /\ i + Len(s) <= Len(t)
    /\ \A k \in 1..Len(s) : Fold(t[i + k]) = Fold(s[k])

\* The number of characters of the class that a greedy repetition of at most
\* cap of them takes after the first i characters of t.
ClassRun(items, t, i, cap) ==
    CHOOSE k \in 0..cap :
        /\ k = cap \/ ~InClass(t[i + k + 1], items)
        /\ \A j \in 1..k : InClass(t[i + j], items)

RECURSIVE Ends(_, _, _)
RECURSIVE EndsFrom(_, _, _)
RECURSIVE CatEnds(_, _, _, _)
RECURSIVE AltEnds(_, _, _, _)
RECURSIVE RepEnds(_, _, _, _, _, _)
RECURSIVE RepEndsFrom(_, _, _, _, _, _)

\* The end positions of the matches of node n that start after the first i
\* characters of t, in the order in which the backtracking matcher tries them.
Ends(n, t, i) ==
    CASE n.op = "lit" -> IF LitAt(n.s, t, i) THEN <<i + Len(n.s)>> ELSE <<>>
      [] n.op = "cls" -> IF i < Len(t) /\ InClass(t[i + 1], n.items) THEN <<i + 1>> ELSE <<>>
      [] n.op = "cat" -> CatEnds(n.ns, 1, t, <<i>>)
      [] n.op = "alt" -> AltEnds(n.ns, 1, t, i)
      [] n.op = "rep" -> RepEnds(n.n, n.lo, n.hi, n.unbounded, t, i)

\* Ends of n from each of the start positions, in order.
EndsFrom(n, t, starts) ==
    IF starts = <<>> THEN <<>>
    ELSE IF Len(starts) = 1 THEN Ends(n, t, starts[1])
    ELSE LET h == Len(starts) \div 2
         IN  EndsFrom(n, t, SubSeq(starts, 1, h))
             \o EndsFrom(n, t, SubSeq(starts, h + 1, Len(starts)))

CatEnds(ns, k, t, starts) ==
    IF k > Len(ns) \/ starts = <<>> THEN starts
    ELSE CatEnds(ns, k + 1, t, EndsFrom(ns[k], t, starts))

AltEnds(ns, k, t, i) ==
    IF k > Len(ns) THEN <<>>
    ELSE Ends(ns[k], t, i) \o AltEnds(ns, k + 1, t, i)

\* The ends of a repeated character class that took run characters: the
\* longest first, then one character less at a time down to lo.
ClassEnds(i, lo, run) ==
    IF run < lo THEN <<>> ELSE [j \in 1..(run - lo + 1) |-> i + run - j + 1]

\* Greedy: one more repetition is tried before stopping.
RepEnds(n, lo, hi, unbounded, t, i) ==
    IF n.op = "cls"
    THEN ClassEnds(i, lo, ClassRun(n.items, t, i,
                                   IF unbounded \/ Len(t) - i < hi THEN Len(t) - i ELSE hi))
    ELSE (IF unbounded \/ hi > 0
          THEN RepEndsFrom(n, IF lo > 0 THEN lo - 1 ELSE 0,
                           IF unbounded THEN hi ELSE hi - 1, unbounded, t, Ends(n, t, i))
          ELSE <<>>)
         \o (IF lo = 0 THEN <<i>> ELSE <<>>)

RepEndsFrom(n, lo, hi, unbounded, t, starts) ==
    IF starts = <<>> THEN <<>>
    ELSE IF Len(starts) = 1 THEN RepEnds(n, lo, hi, unbounded, t, starts[1])
    ELSE LET h == Len(starts) \div 2
         IN  RepEndsFrom(n, lo, hi, unbounded, t, SubSeq(starts, 1, h))
             \o RepEndsFrom(n, lo, hi, unbounded, t, SubSeq(starts, h + 1, Len(starts)))

(***************************************************************************)
(* A pattern is a prefix (label and separators) followed by its one        *)
(* capture group, which ends the pattern in every rule of the table.       *)
(***************************************************************************)
Pattern(pre, grp) == [pre |-> pre, grp |-> grp]

NoMatch == [matched |-> FALSE, start |-> 0, end |-> 0, gstart |-> 0]

\* The match that starts at i, given the ends of the prefix in priority order
\* and, for each, the ends of the group from there: the first prefix end from
\* which the group matches, with the group's first end.
PickGroup(i, pres, gs) ==
    LET ok == {k \in 1..Len(pres) : gs[k] # <<>>}
        k1 == CHOOSE k \in ok : \A j \in ok : k <= j
    IN  IF ok = {} THEN NoMatch
        ELSE [matched |-> TRUE, start |-> i, end |-> gs[k1][1], gstart |-> pres[k1]]

GroupFrom(p, t, i, pres) ==
    PickGroup(i, pres, [k \in 1..Len(pres) |-> Ends(p.grp, t, pres[k])])

\* pattern.match at one start position.
MatchAt(p, t, i) == GroupFrom(p, t, i, Ends(p.pre, t, i))

\* Of the matches at each start position, the one at the rightmost position.
Rightmost(ms) ==
    LET hits == {i \in DOMAIN ms : ms[i].matched}
    IN  IF hits = {} THEN NoMatch ELSE ms[CHOOSE i \in hits : \A j \in hits : j <= i]

\* Of the matches at each start position, the one at the leftmost position.
Leftmost(ms) ==
    LET hits == {i \in DOMAIN ms : ms[i].matched}
    IN  IF hits = {} THEN NoMatch ELSE ms[CHOOSE i \in hits : \A j \in hits : i <= j]

\* pattern.search(text)
Search(p, t) == Leftmost([i \in 0..Len(t) |-> MatchAt(p, t, i)])

\* match.group(1)
Group1(m, t) == SubSeq(t, m.gstart + 1, m.end)

\* match.group(0)
Group0(m, t) == SubSeq(t, m.start + 1, m.end)

(***************************************************************************)
(* ReceiptParser.__init__: the rule table                                  *)
(***************************************************************************)
D == Cls({"\\d"})

S == Cls({"\\s"})

\* [:\s]*
Sep == Star(Cls({":", "\\s"}))

\* \$?
Dollar == Opt(Cls({"$"}))

\* [\d\.]+
Decimal == Plus(Cls({"\\d", "."}))

\* r'Date[:\s]*(\d{1,2}[-/]\d{1,2}[-/]\d{2,4})'
PatDate ==
    Pattern(Cat(<<Lit(<<"D","a","t","e">>), Sep>>),
            Cat(<<Rep(D, 1, 2), Cls({"-", "/"}), Rep(D, 1, 2), Cls({"-", "/"}), Rep(D, 2, 4)>>))

\* r'(?:Total|Total Sale|Amount Due|Total\s+Sale\s+S)[:\s]*\$?(\d+\.\d{2})'
PatTotal ==
    Pattern(Cat(<<Alt(<<Lit(<<"T","o","t","a","l">>),
                        Lit(<<"T","o","t","a","l"," ","S","a","l","e">>),
                        Lit(<<"A","m","o","u","n","t"," ","D","u","e">>),
                        Cat(<<Lit(<<"T","o","t","a","l">>), Plus(S),
                              Lit(<<"S","a","l","e">>), Plus(S), Lit(<<"S">>)>>)>>),
                  Sep, Dollar>>),
            Cat(<<Plus(D), Cls({"."}), Rep(D, 2, 2)>>))

\* r'Total\s+Sale\s+S\s+(\d+\s*\.\s*\d{2})'
PatTotalSale ==
    Pattern(Cat(<<Lit(<<"T","o","t","a","l">>), Plus(S), Lit(<<"S","a","l","e">>), Plus(S),
                  Lit(<<"S">>), Plus(S)>>),
            Cat(<<Plus(D), Star(S), Cls({"."}), Star(S), Rep(D, 2, 2)>>))

\* r'Gallons[:\s]*([\d\.]+)'
PatGallons == Pattern(Cat(<<Lit(<<"G","a","l","l","o","n","s">>), Sep>>), Decimal)

\* r'Gallons\s*([\d\.]+)'
PatGallonsA == Pattern(Cat(<<Lit(<<"G","a","l","l","o","n","s">>), Star(S)>>), Decimal)

\* r'(?:Price per Gallon|Price/Gallon|Price)[:\s]*\$?([\d\.]+)'
PatPricePerGallon ==
    Pattern(Cat(<<Alt(<<Lit(<<"P","r","i","c","e"," ","p","e","r"," ","G","a","l","l","o","n">>),
                        Lit(<<"P","r","i","c","e","/","G","a","l","l","o","n">>),
                        Lit(<<"P","r","i","c","e">>)>>),
                  Sep, Dollar>>),
            Decimal)

\* r'(?:Invoice|Inuoice)[:#\s]*([A-Za-z0-9]+)'
PatInvoiceNumber ==
    Pattern(Cat(<<Alt(<<Lit(<<"I","n","v","o","i","c","e">>),
                        Lit(<<"I","n","u","o","i","c","e">>)>>),
                  Star(Cls({":", "#", "\\s"}))>>),
            Plus(Cls({"A-Z", "a-z", "0-9"})))

\* r'Time[:\s]*(\d{1,2}:\d{2}(?:\s*[APap][Mm])?)'
PatTime ==
    Pattern(Cat(<<Lit(<<"T","i","m","e">>), Sep>>),
            Cat(<<Rep(D, 1, 2), Cls({":"}), Rep(D, 2, 2),
                  Opt(Cat(<<Star(S), Cls({"A", "P", "a", "p"}), Cls({"M", "m"})>>))>>))

\* r'Address[:\s]*([\w\s,.-]+(?:\s*\d{5})?)'
PatAddress ==
    Pattern(Cat(<<Lit(<<"A","d","d","r","e","s","s">>), Sep>>),
            Cat(<<Plus(Cls({"\\w", "\\s", ",", ".", "-"})),
                  Opt(Cat(<<Star(S), Rep(D, 5, 5)>>))>>))

\* r'Odometer[:\s]*([\d]+)'
PatOdometer == Pattern(Cat(<<Lit(<<"O","d","o","m","e","t","e","r">>), Sep>>), Plus(D))

(***************************************************************************)
(* Values of the record: None, str, int, float and re.Match objects.  A    *)
(* float is the decimal num/den it was read from (den a power of ten, no   *)
(* common factor ten), den = 0 standing for inf (num = 1) and nan (num = 0)*)
(***************************************************************************)
None == [type |-> "NoneType", s |-> <<>>, num |-> 0, den |-> 1]

StrVal(s) == [type |-> "str", s |-> s, num |-> 0, den |-> 1]

IntVal(n) == [type |-> "int", s |-> <<>>, num |-> n, den |-> 1]

FloatVal(num, den) == [type |-> "float", s |-> <<>>, num |-> num, den |-> den]

\* The match object, told by the text it matched.
MatchVal(m, t) == [type |-> "re.Match", s |-> Group0(m, t), num |-> 0, den |-> 1]

Inf == FloatVal(1, 0)

NaN == FloatVal(0, 0)

Returned(v) == [exc |-> "none", val |-> v]

Raised(e) == [exc |-> e, val |-> None]

DigitVal(c) == (CHOOSE i \in 1..Len(DigitChars) : DigitChars[i] = c) - 1

RECURSIVE DigitsValue(_)
DigitsValue(s) ==
    IF s = <<>> THEN 0
    ELSE DigitsValue(SubSeq(s, 1, Len(s) - 1)) * 10 + DigitVal(s[Len(s)])

RECURSIVE Pow10(_)
Pow10(k) == IF k = 0 THEN 1 ELSE 10 * Pow10(k - 1)

RECURSIVE Normalize(_, _)
\* 12.500 and 12.5 are the same float.
Normalize(num, den) ==
    IF den > 1 /\ num % 10 = 0 THEN Normalize(num \div 10, den \div 10)
    ELSE FloatVal(num, den)

RECURSIVE Strip(_)
\* str.strip(), which float() and int() apply to their argument.
Strip(s) ==
    IF s # <<>> /\ IsSpace(Head(s)) THEN Strip(Tail(s))
    ELSE IF s # <<>> /\ IsSpace(s[Len(s)]) THEN Strip(SubSeq(s, 1, Len(s) - 1))
    ELSE s

\* The characters of s before the first occurrence of c (all of s without one).
Before(s, c) ==
    LET at == {i \in 1..Len(s) : s[i] = c}
    IN  IF at = {} THEN s
        ELSE SubSeq(s, 1, (CHOOSE i \in at : \A j \in at : i <= j) - 1)

\* float of a stripped string of digits and dots.  A string with a character
\* of any other kind, with two dots or with no digit raises ValueError.  A
\* digit run too long for a double reads as inf in the integer part and rounds
\* the last place up in the fraction.
FloatOf(v) ==
    LET dots == {i \in 1..Len(v) : v[i] = "."}
        ip   == Before(v, ".")
        fp   == SubSeq(v, Len(Before(v, ".")) + 2, Len(v))
        fp0  == Before(SubSeq(v, Len(Before(v, ".")) + 2, Len(v)), DigitRun)
    IN  IF \/ \E i \in 1..Len(v) : ~(IsDigit(v[i]) \/ v[i] = ".")
           \/ Cardinality(dots) > 1
           \/ ~\E i \in 1..Len(v) : IsDigit(v[i])
        THEN Raised("ValueError")
        ELSE IF DigitRun \in Range(ip) THEN Returned(Inf)
        ELSE IF DigitRun \in Range(fp)
             THEN Returned(Normalize(DigitsValue(ip \o fp0) + 1, Pow10(Len(fp0))))
        ELSE Returned(Normalize(DigitsValue(ip \o fp), Pow10(Len(fp))))

\* float(value) on what the rules capture.
FloatConv(value) == FloatOf(Strip(value))

\* int of a stripped digit string; more digits than the interpreter's limit
\* for the conversion raise ValueError.
IntOf(v) ==
    IF v = <<>> \/ \E i \in 1..Len(v) : ~IsDigit(v[i]) THEN Raised("ValueError")
    ELSE IF DigitRun \in Range(v) THEN Raised("ValueError")
    ELSE Returned(IntVal(DigitsValue(v)))

\* int(value)
IntConv(value) == IntOf(Strip(value))

\* str(value)
StrConv(value) == Returned(StrVal(value))

\* cast_type(value)
Cast(cast_type, value) ==
    CASE cast_type = "float" -> FloatConv(value)
      [] cast_type = "int" -> IntConv(value)
      [] cast_type = "str" -> StrConv(value)

\* except IndexError
CaughtIndexErrorOnly == {"IndexError"}

\* except (ValueError, IndexError)
Caught == {"ValueError", "IndexError"}

\* return cast_type(value), outside any try
CatchNothing(c) == c

\* try: return cast_type(value)  except (ValueError, IndexError): return None
Catch(c) == IF c.exc \in Caught THEN Returned(None) ELSE c

\* if match: ... return None
Convert(match, text, cast_type) ==
    IF match.matched THEN Catch(Cast(cast_type, Group1(match, text))) ELSE Returned(None)

\* ReceiptParser._find_match(pattern, text, group=1, cast_type)
FindMatch(pattern, text, cast_type) == Convert(Search(pattern, text), text, cast_type)

\* Total / Gallons, the exact quotient standing for the double.
FloatDiv(a, b) ==
    IF b.den # 0 /\ b.num = 0 THEN Raised("ZeroDivisionError")
    ELSE IF b.den = 0 THEN Returned(IF a.den = 0 THEN NaN ELSE FloatVal(0, 1))
    ELSE IF a.den = 0 THEN Returned(a)
    ELSE Returned(FloatVal(a.num * b.den, a.den * b.num))

\* round(x, 2)
Round2(x, tieUp) ==
    IF x.den = 0 THEN x
    ELSE LET n == x.num * 100
             q == n \div x.den
             r == n % x.den
         IN  IF 2 * r > x.den \/ (2 * r = x.den /\ tieUp) THEN Normalize(q + 1, 100)
             ELSE Normalize(q, 100)

\* round(x, 3).  At an exact decimal tie the double that stands for x lies
\* just above or just below it: tieUp says which.
Round3(x, tieUp) ==
    IF x.den = 0 THEN x
    ELSE LET n == x.num * 1000
             q == n \div x.den
             r == n % x.den
         IN  IF 2 * r > x.den \/ (2 * r = x.den /\ tieUp) THEN Normalize(q + 1, 1000)
             ELSE Normalize(q, 1000)

\* data.get("Gallons") >= 0
NonNegative(x) == x.num >= 0

\* data.get("Gallons") > 0
Positive(x) == x.num > 0

(***************************************************************************)
(* ReceiptParser.parse                                                     *)
(***************************************************************************)
\* The keys parse assigns, in the order of its assignments.
Keys ==
    {"Date", "Total", "Gallons", "total_sale", "gallons_a", "Price_per_Gallon",
     "Invoice_Number", "Time", "Address", "Odometer"}

\* The pattern and the cast_type of each call of _find_match in parse; the
\* entry gallons_a is searched without _find_match.
Rules ==
    [Date             |-> [pattern |-> PatDate, cast_type |-> "str"],
     Total            |-> [pattern |-> PatTotal, cast_type |-> "float"],
     Gallons          |-> [pattern |-> PatGallons, cast_type |-> "float"],
     total_sale       |-> [pattern |-> PatTotalSale, cast_type |-> "float"],
     gallons_a        |-> [pattern |-> PatGallonsA, cast_type |-> "none"],
     Price_per_Gallon |-> [pattern |-> PatPricePerGallon, cast_type |-> "float"],
     Invoice_Number   |-> [pattern |-> PatInvoiceNumber, cast_type |-> "str"],
     Time             |-> [pattern |-> PatTime, cast_type |-> "str"],
     Address          |-> [pattern |-> PatAddress, cast_type |-> "str"],
     Odometer         |-> [pattern |-> PatOdometer, cast_type |-> "int"]]

\* The value of a match object, None without a match.
MatchOrNone(m, t) == Returned(IF m.matched THEN MatchVal(m, t) ELSE None)

\* The outcome of the right-hand side of each assignment data[key] = ...;
\* gallons_a is assigned the result of pattern.search itself.
Calls(text) ==
    [k \in Keys |->
        IF k = "gallons_a" THEN MatchOrNone(Search(Rules[k].pattern, text), text)
        ELSE FindMatch(Rules[k].pattern, text, Rules[k].cast_type)]

\* try: data["Price_per_Gallon"] = round(data["Total"] / data["Gallons"], 3)
\* except ZeroDivisionError: data["Price_per_Gallon"] = None
Divide(d, q, tieUp) ==
    [exc |-> "none",
     val |-> [d EXCEPT !["Price_per_Gallon"] =
                  IF q.exc = "ZeroDivisionError" THEN None ELSE Round3(q.val, tieUp)],
     divided |-> TRUE]

\* The derivation without the test that Price_per_Gallon is None.
DeriveAlways(d, tieUp) ==
    IF /\ d["Total"] # None
       /\ d["Gallons"] # None
       /\ Positive(d["Gallons"])
    THEN Divide(d, FloatDiv(d["Total"], d["Gallons"]), tieUp)
    ELSE [exc |-> "none", val |-> d, divided |-> FALSE]

\* The derivation that ends parse: Price_per_Gallon from Total and Gallons.
\* divided tells whether Total / Gallons was evaluated.
Derive(d, tieUp) ==
    IF /\ d["Total"] # None
       /\ d["Gallons"] # None
       /\ Positive(d["Gallons"])
       /\ d["Price_per_Gallon"] = None
    THEN Divide(d, FloatDiv(d["Total"], d["Gallons"]), tieUp)
    ELSE [exc |-> "none", val |-> d, divided |-> FALSE]

NoData == [k \in {} |-> None]

\* return data, unless an exception left the derivation.
Return(extr, r) ==
    [raised |-> r.exc # "none", extracted |-> extr,
     data |-> IF r.exc = "none" THEN r.val ELSE NoData, divided |-> r.divided]

\* parse from the outcomes of its calls: whether an exception left it, the
\* record as the rules filled it, the record it returned, and whether it
\* divided Total by Gallons.
Finish(calls, tieUp) ==
    LET extr == [k \in Keys |-> calls[k].val]
    IN  IF \E k \in Keys : calls[k].exc # "none"
        THEN [raised |-> TRUE, extracted |-> extr, data |-> NoData, divided |-> FALSE]
        ELSE Return(extr, Derive(extr, tieUp))

\* parse(text): the outcomes it can have.
Parse(text) == {Finish(calls, tieUp) : calls \in {Calls(text)}, tieUp \in BOOLEAN}

(***************************************************************************)
(* Input texts.  A composed text is a concatenation of at most MaxPieces   *)
(* receipt fragments; the sample texts are whole receipts.                 *)
(***************************************************************************)
MaxPieces == 2

\* 'Total $10.00 '
FragTotal ==
    <<"T","o","t","a","l"," ","$","1","0",".","0","0"," ">>

\* 'Total N/A '
FragTotalNoValue ==
    <<"T","o","t","a","l"," ","N","/","A"," ">>

\* 'Gallons: 0.0 '
FragGallonsZero ==
    <<"G","a","l","l","o","n","s",":"," ","0",".","0"," ">>

\* 'Gallons 12.500 '
FragGallons ==
    <<"G","a","l","l","o","n","s"," ","1","2",".","5","0","0"," ">>

\* 'Gallons: .. '
FragGallonsDots ==
    <<"G","a","l","l","o","n","s",":"," ",".","."," ">>

\* 'Price: 3.459 '
FragPrice ==
    <<"P","r","i","c","e",":"," ","3",".","4","5","9"," ">>

\* 'Price: . '
FragPriceDot ==
    <<"P","r","i","c","e",":"," ","."," ">>

\* 'Address:   '
FragAddressBlank ==
    <<"A","d","d","r","e","s","s",":"," "," "," ">>

\* 'Odometer: <DigitRun> '
FragOdometerRun ==
    <<"O","d","o","m","e","t","e","r",":"," ","9{4301}"," ">>

Fragments ==
    {FragTotal, FragTotalNoValue, FragGallonsZero, FragGallons, FragGallonsDots,
     FragPrice, FragPriceDot, FragAddressBlank, FragOdometerRun}

\* 'Date: 03/14/2024 Time: 10:15 AM Gallons 12.500 Total Sale $43.75 Invoice# 9091 Address: 100 Main St, Springfield 62704 Odometer: 45210'
EndToEndText ==
    <<"D","a","t","e",":"," ","0","3","/","1","4","/","2","0","2","4"," ","T","i","m","e",":",
    " ","1","0",":","1","5"," ","A","M"," ","G","a","l","l","o","n","s"," ","1","2",".","5","0",
    "0"," ","T","o","t","a","l"," ","S","a","l","e"," ","$","4","3",".","7","5"," ","I","n","v",
    "o","i","c","e","#"," ","9","0","9","1"," ","A","d","d","r","e","s","s",":"," ","1","0","0",
    " ","M","a","i","n"," ","S","t",","," ","S","p","r","i","n","g","f","i","e","l","d"," ","6",
    "2","7","0","4"," ","O","d","o","m","e","t","e","r",":"," ","4","5","2","1","0">>

\* 'Total $10.00 ... Total Sale $20.00'
TwoTotalsText ==
    <<"T","o","t","a","l"," ","$","1","0",".","0","0"," ",".",".","."," ","T","o","t","a","l",
    " ","S","a","l","e"," ","$","2","0",".","0","0">>

\* 'Inuoice# 4471'
MisspelledInvoiceText ==
    <<"I","n","u","o","i","c","e","#"," ","4","4","7","1">>

\* 'Total: 12.34'
PlainTotalText ==
    <<"T","o","t","a","l",":"," ","1","2",".","3","4">>

\* 'Total: $12.34'
DollarTotalText ==
    <<"T","o","t","a","l",":"," ","$","1","2",".","3","4">>

\* 'Total: 40.00 Gallons: 10.0'
DerivationText ==
    <<"T","o","t","a","l",":"," ","4","0",".","0","0"," ","G","a","l","l","o","n","s",":"," ",
    "1","0",".","0">>

\* 'Total 0.01 Gallons 20'
TieText ==
    <<"T","o","t","a","l"," ","0",".","0","1"," ","G","a","l","l","o","n","s"," ","2","0">>

\* 'Total $10.00 Gallons 3'
InexactText ==
    <<"T","o","t","a","l"," ","$","1","0",".","0","0"," ","G","a","l","l","o","n","s"," ","3">>

\* 'Gallons: 1.2.3 Gallons: 2.0 Total 5.00'
BadGallonsText ==
    <<"G","a","l","l","o","n","s",":"," ","1",".","2",".","3"," ","G","a","l","l","o","n","s",
    ":"," ","2",".","0"," ","T","o","t","a","l"," ","5",".","0","0">>

\* 'Price: . Total: 40.00 Gallons: 10.0'
BadPriceText ==
    <<"P","r","i","c","e",":"," ","."," ","T","o","t","a","l",":"," ","4","0",".","0","0"," ",
    "G","a","l","l","o","n","s",":"," ","1","0",".","0">>

\* 'Total $10.00 Gallons: <DigitRun>'
HugeGallonsText ==
    <<"T","o","t","a","l"," ","$","1","0",".","0","0"," ","G","a","l","l","o","n","s",":"," ",
    "9{4301}">>

\* 'date 3-1-24 time 9:05pm odometer 7\naddress: 1 Elm St. \ntotal 5.00'
LowerCaseText ==
    <<"d","a","t","e"," ","3","-","1","-","2","4"," ","t","i","m","e"," ","9",":","0","5","p",
    "m"," ","o","d","o","m","e","t","e","r"," ","7","\n","a","d","d","r","e","s","s",":"," ",
    "1"," ","E","l","m"," ","S","t","."," ","\n","t","o","t","a","l"," ","5",".","0","0">>

\* 'Error: E04 Total $10.00'
ErrorWordText ==
    <<"E","r","r","o","r",":"," ","E","0","4"," ","T","o","t","a","l"," ","$","1","0",".","0",
    "0">>

\* 'Total: 40.00 Gallons: 10.0 Price/Gallon: $3.999'
PricedText ==
    <<"T","o","t","a","l",":"," ","4","0",".","0","0"," ","G","a","l","l","o","n","s",":"," ",
    "1","0",".","0"," ","P","r","i","c","e","/","G","a","l","l","o","n",":"," ","$","3",".","9",
    "9","9">>

Samples ==
    {EndToEndText, TwoTotalsText, MisspelledInvoiceText, PlainTotalText, DollarTotalText,
     DerivationText, TieText, InexactText, BadGallonsText,
     BadPriceText, HugeGallonsText, LowerCaseText, ErrorWordText, PricedText}

RECURSIVE Compose(_)
Compose(k) ==
    IF k = 0 THEN {<<>>}
    ELSE LET shorter == Compose(k - 1)
         IN  shorter \cup {a \o f : a \in shorter, f \in Fragments}

Texts == Compose(MaxPieces) \cup Samples

(***************************************************************************)
(* The OCR processors and the upload route                                 *)
(***************************************************************************)
\* 'No file part in the request.'
MsgNoFilePart ==
    <<"N","o"," ","f","i","l","e"," ","p","a","r","t"," ","i","n"," ","t","h","e"," ","r","e",
    "q","u","e","s","t",".">>

\* 'No selected file'
MsgNoSelectedFile ==
    <<"N","o"," ","s","e","l","e","c","t","e","d"," ","f","i","l","e">>

\* 'OCR processing complete!'
MsgOcrComplete ==
    <<"O","C","R"," ","p","r","o","c","e","s","s","i","n","g"," ","c","o","m","p","l","e","t",
    "e","!">>

\* 'OCR failed to extract text.'
OcrFailedText ==
    <<"O","C","R"," ","f","a","i","l","e","d"," ","t","o"," ","e","x","t","r","a","c","t"," ",
    "t","e","x","t",".">>

\* 'Data parsing complete!'
MsgParsingComplete ==
    <<"D","a","t","a"," ","p","a","r","s","i","n","g"," ","c","o","m","p","l","e","t","e","!">>

\* 'Google Sheet logging is currently disabled.'
MsgLoggingDisabled ==
    <<"G","o","o","g","l","e"," ","S","h","e","e","t"," ","l","o","g","g","i","n","g"," ","i",
    "s"," ","c","u","r","r","e","n","t","l","y"," ","d","i","s","a","b","l","e","d",".">>

\* 'Tesseract is not installed or not in your PATH.'
TesseractNotFoundText ==
    <<"T","e","s","s","e","r","a","c","t"," ","i","s"," ","n","o","t"," ","i","n","s","t","a",
    "l","l","e","d"," ","o","r"," ","n","o","t"," ","i","n"," ","y","o","u","r"," ","P","A","T",
    "H",".">>

\* 'Tesseract Error: '
TesseractErrorPrefix ==
    <<"T","e","s","s","e","r","a","c","t"," ","E","r","r","o","r",":"," ">>

\* 'EasyOCR Error: '
EasyOCRErrorPrefix ==
    <<"E","a","s","y","O","C","R"," ","E","r","r","o","r",":"," ">>

\* 'Error:'
ErrorMarker ==
    <<"E","r","r","o","r",":">>

\* 'cannot identify image file'
BadImageMessage ==
    <<"c","a","n","n","o","t"," ","i","d","e","n","t","i","f","y"," ","i","m","a","g","e"," ",
    "f","i","l","e">>

\* 'r.JPG'
NameUpperJpg ==
    <<"r",".","J","P","G">>

\* 'r.gif'
NameGif ==
    <<"r",".","g","i","f">>

\* 'jpg'
ExtJpg ==
    <<"j","p","g">>

\* 'jpeg'
ExtJpeg ==
    <<"j","p","e","g">>

\* 'png'
ExtPng ==
    <<"p","n","g">>

\* sub in s
Contains(s, sub) ==
    \E i \in 0..(Len(s) - Len(sub)) : SubSeq(s, i + 1, i + Len(sub)) = sub

\* str.lower()
Lower(s) == [i \in 1..Len(s) |-> Fold(s[i])]

\* app.config['ALLOWED_EXTENSIONS']
AllowedExtensions == {ExtJpg, ExtJpeg, ExtPng}

\* allowed_file(filename)
allowed_file(filename) ==
    LET dots == {i \in 1..Len(filename) : filename[i] = "."}
        last == CHOOSE i \in dots : \A j \in dots : j <= i
    IN  /\ dots # {}
        /\ Lower(SubSeq(filename, last + 1, Len(filename))) \in AllowedExtensions

\* What happens inside process: the engine reads the text of the image, or
\* Tesseract is missing, or any other exception with message msg is raised.
OcrOutcomes ==
    {[kind |-> "text", msg |-> <<>>],
     [kind |-> "TesseractNotFoundError", msg |-> <<>>],
     [kind |-> "Exception", msg |-> BadImageMessage]}

\* TesseractProcessor.process
TesseractProcess(outcome, image_text) ==
    CASE outcome.kind = "text" -> image_text
      [] outcome.kind = "TesseractNotFoundError" -> TesseractNotFoundText
      [] outcome.kind = "Exception" -> TesseractErrorPrefix \o outcome.msg

\* EasyOCRProcessor.process
EasyOCRProcess(outcome, image_text) ==
    CASE outcome.kind = "text" -> image_text
      [] OTHER -> EasyOCRErrorPrefix \o outcome.msg

Flash(message, category) == [message |-> message, category |-> category]

Requests ==
    [method : {"GET", "POST"}, has_file : BOOLEAN, filename : {<<>>, NameUpperJpg, NameGif},
     ocr_engine : {"EasyOCR", "Tesseract"}]

NoRequest == [method |-> "none", has_file |-> FALSE, filename |-> <<>>, ocr_engine |-> "none"]

NoParse == [raised |-> FALSE, extracted |-> NoData, data |-> NoData, divided |-> FALSE]

\* index() up to the call of parser.parse: what it flashed, the text it left
\* in receipt.raw_text, and how it returned when it did not reach the call.
Upload(req, out) ==
    IF req.method # "POST"
    THEN [flashed |-> <<>>, raw_text |-> <<>>, response |-> "render_index"]
    ELSE IF ~req.has_file
    THEN [flashed |-> <<Flash(MsgNoFilePart, "error")>>, raw_text |-> <<>>,
          response |-> "redirect"]
    ELSE IF req.filename = <<>>
    THEN [flashed |-> <<Flash(MsgNoSelectedFile, "message")>>, raw_text |-> <<>>,
          response |-> "redirect"]
    ELSE IF ~allowed_file(req.filename)
    THEN [flashed |-> <<>>, raw_text |-> <<>>, response |-> "render_index"]
    ELSE IF Contains(out, ErrorMarker)
    THEN [flashed |-> <<Flash(out, "error")>>, raw_text |-> OcrFailedText, response |-> "parse"]
    ELSE [flashed |-> <<Flash(MsgOcrComplete, "success")>>, raw_text |-> out,
          response |-> "parse"]

\* ocr_processor.process(receipt.image_bytes)
Process(req, outcome, image_text) ==
    IF req.ocr_engine = "EasyOCR" THEN EasyOCRProcess(outcome, image_text)
    ELSE TesseractProcess(outcome, image_text)

\* index() from the call of parser.parse on.
Respond(u, p) ==
    IF p.raised
    THEN [flashed |-> u.flashed, raw_text |-> u.raw_text, called |-> TRUE, parsed |-> p,
          response |-> "exception"]
    ELSE [flashed |-> u.flashed \o <<Flash(MsgParsingComplete, "success"),
                                     Flash(MsgLoggingDisabled, "warning")>>,
          raw_text |-> u.raw_text, called |-> TRUE, parsed |-> p,
          response |-> "render_receipt"]

IndexFrom(u) ==
    IF u.response = "parse" THEN {Respond(u, p) : p \in Parse(u.raw_text)}
    ELSE {[flashed |-> u.flashed, raw_text |-> u.raw_text, called |-> FALSE,
           parsed |-> NoParse, response |-> u.response]}

\* index(): the outcomes it can have.
IndexResult(req, outcome, image_text) == IndexFrom(Upload(req, Process(req, outcome, image_text)))

(***************************************************************************)
(* State                                                                   *)
(***************************************************************************)
VARIABLES
    image_text,   \* the text of the receipt at hand
    pc,           \* "ready", then "parsed" (after parse) or "responded" (after index)
    called,       \* whether parse was called
    text,         \* the argument parse was called with
    extracted,    \* the record parse had filled before its derivation step
    data,         \* the record parse returned
    raised,       \* whether an exception left parse
    divided,      \* whether parse evaluated Total / Gallons
    request,      \* the request index handled
    ocr_exc,      \* the exception raised inside process ("none" without one)
    raw_text,     \* receipt.raw_text when index returned
    flashed,      \* the messages index flashed, in order
    response      \* how index returned

vars ==
    <<image_text, pc, called, text, extracted, data, raised, divided, request, ocr_exc, raw_text,
      flashed, response>>

Start ==
    /\ pc = "ready"
    /\ called = FALSE
    /\ text = <<>>
    /\ extracted = NoData
    /\ data = NoData
    /\ raised = FALSE
    /\ divided = FALSE
    /\ request = NoRequest
    /\ ocr_exc = "none"
    /\ raw_text = <<>>
    /\ flashed = <<>>
    /\ response = "none"

Init == image_text \in Texts /\ Start

\* A call of ReceiptParser.parse(image_text).
ParseText ==
    /\ pc = "ready"
    /\ \E p \in Parse(image_text) :
          /\ extracted' = p.extracted
          /\ data' = p.data
          /\ raised' = p.raised
          /\ divided' = p.divided
    /\ pc' = "parsed"
    /\ called' = TRUE
    /\ text' = image_text
    /\ UNCHANGED <<image_text, request, ocr_exc, raw_text, flashed, response>>

Next == ParseText

Spec == Init /\ [][Next]_vars

InitUpload == image_text \in Samples /\ Start

\* A request to the route "/".
Index ==
    /\ pc = "ready"
    /\ \E req \in Requests, outcome \in OcrOutcomes :
          \E r \in IndexResult(req, outcome, image_text) :
              /\ request' = req
              /\ ocr_exc' = IF r.called /\ outcome.kind # "text" THEN outcome.kind ELSE "none"
              /\ called' = r.called
              /\ text' = IF r.called THEN r.raw_text ELSE <<>>
              /\ extracted' = r.parsed.extracted
              /\ data' = r.parsed.data
              /\ raised' = r.parsed.raised
              /\ divided' = r.parsed.divided
              /\ raw_text' = r.raw_text
              /\ flashed' = r.flashed
              /\ response' = r.response
    /\ pc' = "responded"
    /\ UNCHANGED image_text

NextUpload == Index

SpecUpload == InitUpload /\ [][NextUpload]_vars

(***************************************************************************)
(* Properties                                                              *)
(***************************************************************************)
\* The fields of a record that the ledger row takes.
DeclaredFields ==
    {"Date", "Total", "Gallons", "Price_per_Gallon", "Invoice_Number", "Time", "Address",
     "Odometer"}

NumericFields == {"Total", "Gallons", "Price_per_Gallon", "Odometer"}

\* The rule of field k finds no match in the text.
Unmatched(k) == ~Search(Rules[k].pattern, text).matched

\* The rule of field k finds a match whose capture its cast_type rejects.
ConversionFails(k) ==
    /\ Search(Rules[k].pattern, text).matched
    /\ Cast(Rules[k].cast_type, Group1(Search(Rules[k].pattern, text), text)).exc # "none"

\* What the rule of field k yields on the text.
RuleValue(k) == FindMatch(Rules[k].pattern, text, Rules[k].cast_type).val

C2_ExactlyDeclaredKeys ==
    (called /\ ~raised) =>
        /\ DOMAIN data = DeclaredFields
        /\ \A k \in DOMAIN data : data[k].type \in {"str", "float", "int", "NoneType"}

\* C3: on the end-to-end text every field is the value that follows its label,
\* the address ending at its postal code.
C3_EndToEnd ==
    (called /\ ~raised /\ text = EndToEndText) =>
        /\ data["Date"] = StrVal(<<"0","3","/","1","4","/","2","0","2","4">>)
        /\ data["Time"] = StrVal(<<"1","0",":","1","5"," ","A","M">>)
        /\ data["Gallons"] = FloatVal(125, 10)
        /\ data["Total"] = FloatVal(4375, 100)
        /\ data["Invoice_Number"] = StrVal(<<"9","0","9","1">>)
        /\ data["Odometer"] = IntVal(45210)
        /\ data["Price_per_Gallon"] = FloatVal(35, 10)
        /\ data["Address"] =
              StrVal(<<"1","0","0"," ","M","a","i","n"," ","S","t",","," ","S","p","r","i","n",
                       "g","f","i","e","l","d"," ","6","2","7","0","4">>)

\* p is a float within half a thousandth of t / g, a whole number of
\* thousandths (of 0.0 for an infinite g).
NearestThousandth(p, t, g) ==
    IF g.den = 0 THEN p = (IF t.den = 0 THEN NaN ELSE FloatVal(0, 1))
    ELSE IF t.den = 0 THEN p = Inf
    ELSE /\ p.type = "float"
         /\ p.den \in {1, 10, 100, 1000}
         /\ 2 * (p.num * (1000 \div p.den) * t.den * g.num - 1000 * t.num * g.den)
               <= t.den * g.num
         /\ 2 * (1000 * t.num * g.den - p.num * (1000 \div p.den) * t.den * g.num)
               <= t.den * g.num

\* C4: when the price rule yields no value while Total and Gallons have
\* values and Gallons > 0, Price_per_Gallon is Total / Gallons rounded to 3
\* decimal places; Total 40.00 and Gallons 10.0 give 4.0.
C4_DerivedPrice ==
    /\ (/\ called
        /\ extracted["Price_per_Gallon"] = None
        /\ extracted["Total"] # None
        /\ extracted["Gallons"] # None
        /\ extracted["Gallons"].num > 0) =>
           /\ ~raised
           /\ NearestThousandth(data["Price_per_Gallon"], extracted["Total"],
                                extracted["Gallons"])
    /\ (called /\ text = DerivationText) => data["Price_per_Gallon"] = FloatVal(4, 1)

\* Total 10.00 and Gallons 3 were parsed: the price is the rounded 3.333.
C4_Witness ==
    /\ called
    /\ text = InexactText
    /\ extracted["Price_per_Gallon"] = None
    /\ data["Price_per_Gallon"] = FloatVal(3333, 1000)

\* C5: when Gallons is extracted as zero and the price rule yields no value,
\* Price_per_Gallon is None whatever Total is, no division is attempted and
\* no exception leaves parse.
C5_ZeroGallons ==
    (called /\ extracted["Gallons"] = FloatVal(0, 1) /\ extracted["Price_per_Gallon"] = None) =>
        /\ ~raised
        /\ ~divided
        /\ data["Price_per_Gallon"] = None

\* A text with a Total and 'Gallons: 0.0' was parsed.
C5_Witness ==
    /\ called
    /\ extracted["Gallons"] = FloatVal(0, 1)
    /\ extracted["Total"] # None
    /\ ~raised
    /\ data["Price_per_Gallon"] = None

\* The label of the rule of field k: the first element of its pattern.
Label(k) == Rules[k].pattern.pre.ns[1]

\* The positions at which the label of field k occurs in the text.
LabelHits(k) == {i \in 0..Len(text) : Ends(Label(k), text, i) # <<>>}

Least(hits) == CHOOSE i \in hits : \A j \in hits : i <= j

\* What the rule of field k yields from the occurrence of its label at i.
ValueAt(k, i) ==
    Convert(MatchAt(Rules[k].pattern, text, i), text, Rules[k].cast_type).val

\* C6 as claimed: only the first occurrence of a field's label is used, also
\* when it is not followed by a well-formed value.
C6_FirstLabelOccurrence ==
    (called /\ ~raised) =>
        \A k \in DeclaredFields :
            LabelHits(k) # {} => extracted[k] = ValueAt(k, Least(LabelHits(k)))

\* C6 as amended: the field's value comes from the leftmost position at which
\* the rule's whole pattern (label, separators, value) matches; a match
\* further right never determines it.  'Total $10.00 ... Total Sale $20.00'
\* gives Total 10.00.
C6_LeftmostMatch ==
    (called /\ ~raised) =>
        /\ \A k \in DeclaredFields : \A i \in 0..Len(text) :
              (/\ MatchAt(Rules[k].pattern, text, i).matched
               /\ \A j \in 0..(i - 1) : ~MatchAt(Rules[k].pattern, text, j).matched) =>
                  extracted[k] = ValueAt(k, i)
        /\ text = TwoTotalsText => data["Total"] = FloatVal(10, 1)

\* The text with two Total labels, each followed by a value, was parsed.
C6_Witness ==
    /\ called
    /\ text = TwoTotalsText
    /\ Cardinality(LabelHits("Total")) > 1
    /\ data["Total"] = FloatVal(10, 1)

\* C7: when the pattern of a numeric field matches and the capture cannot be
\* converted, the field is None, no exception leaves parse, and every other
\* field is what its own rule yields.
C7_ConversionFailureIsNone ==
    called =>
        \A k \in NumericFields :
            ConversionFails(k) =>
                /\ ~raised
                /\ extracted[k] = None
                /\ k # "Price_per_Gallon" => data[k] = None
                /\ \A j \in DeclaredFields \ {k} : extracted[j] = RuleValue(j)

\* 'Price: .' was parsed with a Total and Gallons: the price was derived.
C7_Witness ==
    /\ called
    /\ text = BadPriceText
    /\ ConversionFails("Price_per_Gallon")
    /\ extracted["Price_per_Gallon"] = None
    /\ extracted["Total"] = FloatVal(40, 1)
    /\ data["Price_per_Gallon"] = FloatVal(4, 1)

\* C8: the derivation changes no entry other than Price_per_Gallon, and that
\* one only when it was None; the other fields returned are what their own
\* rules extracted.
C8_DerivationFrame ==
    (called /\ ~raised) =>
        /\ \A k \in Keys \ {"Price_per_Gallon"} : data[k] = extracted[k]
        /\ \A k \in DeclaredFields \ {"Price_per_Gallon"} : data[k] = RuleValue(k)
        /\ extracted["Price_per_Gallon"] # None =>
              data["Price_per_Gallon"] = extracted["Price_per_Gallon"]

\* A text with a price, a Total and positive Gallons was parsed.
C8_Witness ==
    /\ called
    /\ ~raised
    /\ extracted["Price_per_Gallon"] = FloatVal(3999, 1000)
    /\ extracted["Total"] # None
    /\ extracted["Gallons"] # None
    /\ extracted["Gallons"].num > 0
    /\ data["Price_per_Gallon"] = FloatVal(3999, 1000)

\* C9: Address is None or a non-empty string with no leading and no trailing
\* whitespace.
C9_AddressTrimmed ==
    (called /\ ~raised) =>
        \/ data["Address"] = None
        \/ /\ data["Address"].type = "str"
           /\ data["Address"].s # <<>>
           /\ ~IsSpace(data["Address"].s[1])
           /\ ~IsSpace(data["Address"].s[Len(data["Address"].s)])

\* C10: when the OCR processor fails inside process, index flashes an error,
\* does not flash 'OCR processing complete!', and hands the placeholder text
\* to parse.
C10_OcrFailureHandled ==
    (pc = "responded" /\ ocr_exc # "none") =>
        /\ \E i \in 1..Len(flashed) : flashed[i].category = "error"
        /\ \A i \in 1..Len(flashed) : flashed[i].message # MsgOcrComplete
        /\ text = OcrFailedText

====
